---------------------------- MODULE Spec2Model ----------------------------
(***************************************************************************)
(* A model of PromiseCache (src/src/PromiseCache.js), the promise cache    *)
(* with maxAge expiration, interval pruning and LRU eviction, and of its   *)
(* first version (src/unnamed/part_000).                                   *)
(*                                                                         *)
(* An object reference that may be null is a pair of variables: a flag     *)
(* (hasCache, hasList) and the contents.  The cache map is a sequence of   *)
(* <<key, entry>> pairs in property insertion order (the order for-in      *)
(* visits string keys).  A CacheEntry is identified by its index in        *)
(* `entries`; the promise a setter returned for it has the same identity.  *)
(* The cache reads the clock only to compare it with an entry's insertion  *)
(* time, so an entry carries its age, now - entryTime, which every clock   *)
(* tick raises; ages beyond the configured maxAge are not told apart.      *)
(* A promise that is resolved runs no code of the cache (addEntry attaches *)
(* a rejection callback only), so an entry's promise is either unsettled   *)
(* or has been rejected.                                                   *)
(***************************************************************************)
EXTENDS Integers, Sequences, FiniteSets

\* ------------------------------------------------------------- bounds
\* How many times a setter may create a promise, in Spec.
MaxEntries == 2
\* The same in SpecLive, and in SpecGets and SpecInserts.
MaxEntriesLive == 4
MaxEntriesGets == 3
\* The last reading of the clock in the runs of the first version.
MaxTime == 3

\* ---------------------------------------------------------- constants
\* `null` for the numeric configuration options.
Null == -1
\* The default pruneInterval (60 * 1000).
PruneIntervalDefault == 60000

Keys == {"a", "b"}
MoreKeys == {"a", "b", "c"}
MaxSizes == {Null, 1, 2}
MaxAges == {Null, 1}
PruneIntervals == {Null, PruneIntervalDefault}

VARIABLES
    maxSize, maxAge, pruneInterval,   \* the cfg copied onto the instance
    hasCache, cache,                  \* this.cache: null, or the map
    size,                             \* this.size
    hasList, lruList,                 \* this.lruList: null, or LRU..MRU
    pruningIntervalId,                \* this.pruningIntervalId, 0 for null
    intervals,                        \* ids setInterval has scheduled
    entries,                          \* every CacheEntry constructed
    pending,                          \* entries whose promise is unsettled
    last,                             \* the last call and what it returned
    \* the first version (src/unnamed/part_000)
    v1hasCache, v1cache,              \* this.cache: undefined, or the map
    v1entries,                        \* every CacheEntry constructed
    v1pending,                        \* entries whose promise is unsettled
    v1now                             \* (new Date()).getTime()

vars == <<maxSize, maxAge, pruneInterval, hasCache, cache, size, hasList,
          lruList, pruningIntervalId, intervals, entries, pending, last,
          v1hasCache, v1cache, v1entries, v1pending, v1now>>

v1Vars == <<v1hasCache, v1cache, v1entries, v1pending, v1now>>

v2Vars == <<hasCache, cache, size, hasList, lruList, pruningIntervalId,
            intervals, entries, pending>>

cfgVars == <<maxSize, maxAge, pruneInterval>>

\* ------------------------------------------------- the cache map object
MapKeys(m) == {m[i][1] : i \in 1..Len(m)}

MapHas(m, k) == k \in MapKeys(m)

MapGet(m, k) == LET i == CHOOSE j \in 1..Len(m) : m[j][1] = k IN m[i][2]

\* m[k] = e: an existing property keeps its place, a new one goes last.
MapPut(m, k, e) ==
    IF MapHas(m, k)
    THEN [i \in 1..Len(m) |-> IF m[i][1] = k THEN <<k, e>> ELSE m[i]]
    ELSE Append(m, <<k, e>>)

\* delete m[k]
MapDelete(m, k) == SelectSeq(m, LAMBDA p : p[1] # k)

\* ------------------------------------------------------------ CacheEntry
getKey(s, e) == s.entries[e].key

getPromise(e) == e

\* CacheEntry.isExpired( maxAge ): now > entryTime + maxAge
isExpired(s, e, age) == age # Null /\ s.entries[e].age > age

\* --------------------------------------------------------------- LruList
pushMru(l, e) == Append(l, e)

lruRemove(l, e) == SelectSeq(l, LAMBDA x : x # e)

touch(l, e) == Append(lruRemove(l, e), e)

getLru(l) == l[1]

\* ------------------------------------------------------------------ this
This ==
    [hasCache |-> hasCache, cache |-> cache, size |-> size,
     hasList |-> hasList, lruList |-> lruList,
     pruningIntervalId |-> pruningIntervalId, intervals |-> intervals,
     entries |-> entries, threw |-> FALSE]

\* setInterval( fn, ms ) returns a positive id no scheduled interval has.
setInterval(s) == CHOOSE id \in 1..(Cardinality(s.intervals) + 1) : id \notin s.intervals

stopPruningInterval(s) ==
    IF s.pruningIntervalId # 0
    THEN [s EXCEPT !.intervals = @ \ {s.pruningIntervalId},
                   !.pruningIntervalId = 0]
    ELSE s

\* startPruningInterval that never schedules the interval.
startPruningInterval_never(s) == s

startPruningInterval(s) ==
    IF s.pruningIntervalId # 0 THEN s
    ELSE IF pruneInterval = Null THEN s
    ELSE IF maxAge = Null THEN s
    ELSE LET id == setInterval(s)
         IN [s EXCEPT !.pruningIntervalId = id, !.intervals = @ \cup {id}]

clear(s) ==
    stopPruningInterval(
        [s EXCEPT !.hasCache = FALSE, !.cache = <<>>,
                  !.hasList = FALSE, !.lruList = <<>>,
                  !.size = 0])

\* removeEntry that clears the cache whatever the size.
removeEntry_alwaysClear(s, e) == clear(s)

\* `delete this.cache[ key ]` is a TypeError when this.cache is null.
removeEntry(s, e) ==
    IF s.size = 1 THEN clear(s)
    ELSE LET s1 == [s EXCEPT !.size = @ - 1,
                             !.lruList = IF s.hasList THEN lruRemove(@, e) ELSE @]
         IN IF s1.hasCache
            THEN [s1 EXCEPT !.cache = MapDelete(@, getKey(s, e))]
            ELSE [s1 EXCEPT !.threw = TRUE]

remove(s, k) ==
    IF ~s.hasCache THEN s
    ELSE IF MapHas(s.cache, k) THEN removeEntry(s, MapGet(s.cache, k))
    ELSE s

\* removeIfEntry that removes nothing.
removeIfEntry_never(s, k, e) == s

\* removeIfEntry without the comparison of instances.
removeIfEntry_anyEntry(s, k, e) == remove(s, k)

removeIfEntry(s, k, e) ==
    IF ~s.hasCache THEN s
    ELSE IF MapHas(s.cache, k) /\ MapGet(s.cache, k) = e THEN remove(s, k)
    ELSE s

destroy(s) ==
    [stopPruningInterval(s) EXCEPT !.hasCache = FALSE, !.cache = <<>>]

\* The for-in loop of prune over the local `cache`: obj is that object's
\* contents, which stay as they were once clear() has set this.cache to null.
RECURSIVE pruneLoop(_, _, _)
pruneLoop(s, obj, i) ==
    IF i > Len(obj) \/ s.threw THEN s
    ELSE LET k == obj[i][1]
             e == obj[i][2]
             s1 == IF isExpired(s, e, maxAge) THEN removeEntry(s, e) ELSE s
             obj1 == IF s1.hasCache THEN s1.cache ELSE obj
         IN IF s1.hasCache /\ ~MapHas(s1.cache, k)
            THEN pruneLoop(s1, obj1, i)
            ELSE pruneLoop(s1, obj1, i + 1)

\* prune that removes nothing.
prune_nothing(s) == s

prune(s) ==
    IF ~s.hasCache THEN s
    ELSE IF maxAge = Null THEN s
    ELSE pruneLoop(s, s.cache, 1)

getSize(s) == prune(s)

has(s, k) ==
    IF ~s.hasCache THEN FALSE
    ELSE MapHas(s.cache, k) /\ ~isExpired(s, MapGet(s.cache, k), maxAge)

\* addEntry that evicts the most recently used entry.
addEntry_evictMru(s, k) ==
    LET e == Len(s.entries) + 1
        s1 == [s EXCEPT !.entries = Append(@, [key |-> k, age |-> 0]),
                        !.cache = MapPut(@, k, e),
                        !.lruList = IF s.hasList THEN pushMru(@, e) ELSE @,
                        !.size = @ + 1]
        s2 == startPruningInterval(s1)
    IN IF maxSize # Null /\ s2.size > maxSize
       THEN remove(s2, getKey(s2, s2.lruList[Len(s2.lruList)]))
       ELSE s2

\* addEntry without the size++.
addEntry_noCount(s, k) ==
    LET e == Len(s.entries) + 1
        s1 == [s EXCEPT !.entries = Append(@, [key |-> k, age |-> 0]),
                        !.cache = MapPut(@, k, e),
                        !.lruList = IF s.hasList THEN pushMru(@, e) ELSE @]
        s2 == startPruningInterval(s1)
    IN IF maxSize # Null /\ s2.size > maxSize
       THEN remove(s2, getKey(s2, getLru(s2.lruList)))
       ELSE s2

\* new CacheEntry( key, promise )
newEntry(k) == [key |-> k, age |-> 0]

\* addEntry once setter() has returned a promise.
addEntry(s, k) ==
    LET e == Len(s.entries) + 1
        s1 == [s EXCEPT !.entries = Append(@, newEntry(k)),
                        !.cache = MapPut(@, k, e),
                        !.lruList = IF s.hasList THEN pushMru(@, e) ELSE @,
                        !.size = @ + 1]
        s2 == startPruningInterval(s1)
    IN IF maxSize # Null /\ s2.size > maxSize
       THEN remove(s2, getKey(s2, getLru(s2.lruList)))
       ELSE s2

\* The lazy creation of the map and the list at the top of get.
getInit(s) ==
    [s EXCEPT !.hasCache = TRUE,
              !.hasList = IF ~s.hasList /\ maxSize # Null THEN TRUE ELSE @]

\* The entry stored under k, 0 when there is none.
entryAt(s, k) == IF s.hasCache /\ MapHas(s.cache, k) THEN MapGet(s.cache, k) ELSE 0

\* A get that never finds its key.
getHit_never(s, k) == FALSE

\* The condition of the cache hit in get.
getHit(s, k) ==
    s.hasCache /\ MapHas(s.cache, k) /\ ~isExpired(s, MapGet(s.cache, k), maxAge)

\* An entry nothing refers to any more (not the map, not the list, not the
\* rejection callback of an unsettled promise) is garbage: its slot is blanked.
Collected == [key |-> "", age |-> 0]

referenced(s) ==
    {s.cache[i][2] : i \in 1..Len(s.cache)} \cup {s.lruList[i] : i \in 1..Len(s.lruList)}

collect(s, unsettled) ==
    [e \in 1..Len(s.entries) |->
        IF e \in referenced(s) \cup unsettled THEN s.entries[e] ELSE Collected]

Install(s, unsettled) ==
    /\ hasCache' = s.hasCache
    /\ cache' = s.cache
    /\ size' = s.size
    /\ hasList' = s.hasList
    /\ lruList' = s.lruList
    /\ pruningIntervalId' = s.pruningIntervalId
    /\ intervals' = s.intervals
    /\ entries' = collect(s, unsettled)
    /\ pending' = unsettled

\* The call just made: its name (a get by its outcome), its key, what it
\* returned (a promise, or a size; for remove the entry it found under the
\* key, for a timer tick the number of entries it removed) and whether it
\* threw.
Did(op, k, ret, threw) == last' = [op |-> op, key |-> k, ret |-> ret, threw |-> threw]

\* --------------------------------------------------------------- actions
Init ==
    /\ maxSize \in MaxSizes
    /\ maxAge \in MaxAges
    /\ pruneInterval \in PruneIntervals
    /\ hasCache = FALSE /\ cache = <<>>
    /\ size = 0
    /\ hasList = FALSE /\ lruList = <<>>
    /\ pruningIntervalId = 0
    /\ intervals = {}
    /\ entries = <<>>
    /\ pending = {}
    /\ last = [op |-> "new", key |-> "", ret |-> 0, threw |-> FALSE]
    /\ v1hasCache = FALSE /\ v1cache = <<>>
    /\ v1entries = <<>>
    /\ v1pending = {}
    /\ v1now = 0

\* A cache hit that does not touch the entry in the LRU list.
GetHit_noTouch(k) ==
    /\ getHit(This, k)
    /\ LET s == getInit(This)
           e == MapGet(s.cache, k)
       IN Install(s, pending) /\ Did("getHit", k, getPromise(e), FALSE)
    /\ UNCHANGED <<cfgVars, v1Vars>>

GetHit(k) ==
    /\ getHit(This, k)
    /\ LET s == getInit(This)
           e == MapGet(s.cache, k)
       IN /\ Install([s EXCEPT !.lruList = IF s.hasList THEN touch(@, e) ELSE @], pending)
          /\ Did("getHit", k, getPromise(e), FALSE)
    /\ UNCHANGED <<cfgVars, v1Vars>>

GetMissUpTo(k, n) ==
    /\ ~getHit(This, k)
    /\ Len(entries) < n
    /\ LET e == Len(entries) + 1
       IN /\ Install(addEntry(getInit(This), k), pending \cup {e})
          /\ Did("getMiss", k, getPromise(e), FALSE)
    /\ UNCHANGED <<cfgVars, v1Vars>>

\* get( key, setter ) with a setter that is no function: the first throw.
GetNotFunction(k) ==
    /\ Did("getNotFunction", k, 0, TRUE)
    /\ UNCHANGED <<cfgVars, v2Vars, v1Vars>>

\* A get that stores what its setter returned before it throws.
GetNotPromise_storing(k) ==
    /\ ~getHit(This, k)
    /\ Len(entries) < MaxEntries
    /\ Install(addEntry(getInit(This), k), pending)
    /\ Did("getNotPromise", k, 0, TRUE)
    /\ UNCHANGED <<cfgVars, v1Vars>>

\* get( key, setter ) with a setter that returns no promise: addEntry throws.
GetNotPromise(k) ==
    /\ ~getHit(This, k)
    /\ Install(getInit(This), pending)
    /\ Did("getNotPromise", k, 0, TRUE)
    /\ UNCHANGED <<cfgVars, v1Vars>>

\* get( key, setter ): setter is "promise" (a function returning a promise),
\* "notPromise" (a function returning something else) or "notFunction".
GetMiss(k) == GetMissUpTo(k, MaxEntries)

Get(k) == GetHit(k) \/ GetMiss(k)

GetBadSetter(k) == GetNotFunction(k) \/ GetNotPromise(k)

Remove(k) ==
    /\ LET s == remove(This, k)
       IN Install(s, pending) /\ Did("remove", k, entryAt(This, k), s.threw)
    /\ UNCHANGED <<cfgVars, v1Vars>>

Clear ==
    /\ LET s == clear(This)
       IN Install(s, pending) /\ Did("clear", "", 0, s.threw)
    /\ UNCHANGED <<cfgVars, v1Vars>>

Prune ==
    /\ LET s == prune(This)
       IN Install(s, pending) /\ Did("prune", "", 0, s.threw)
    /\ UNCHANGED <<cfgVars, v1Vars>>

GetSize ==
    /\ LET s == getSize(This)
       IN Install(s, pending) /\ Did("getSize", "", s.size, s.threw)
    /\ UNCHANGED <<cfgVars, v1Vars>>

Destroy ==
    /\ LET s == destroy(This)
       IN Install(s, pending) /\ Did("destroy", "", 0, s.threw)
    /\ UNCHANGED <<cfgVars, v1Vars>>

\* A tick of the interval startPruningInterval scheduled.
TimerTick ==
    /\ intervals # {}
    /\ LET s == prune(This)
       IN Install(s, pending) /\ Did("tick", "", Len(cache) - Len(s.cache), s.threw)
    /\ UNCHANGED <<cfgVars, v1Vars>>

\* The promise of entry e is rejected and the callback addEntry attached runs.
\* The call is recorded as "reject" when it changed the map, as "rejectStale"
\* when it left the map as it was.
Reject(e) ==
    /\ e \in pending
    /\ LET s == removeIfEntry(This, getKey(This, e), e)
           op == IF s.cache = cache /\ s.hasCache = hasCache
                 THEN "rejectStale" ELSE "reject"
       IN Install(s, pending \ {e}) /\ Did(op, getKey(This, e), e, s.threw)
    /\ UNCHANGED <<cfgVars, v1Vars>>

\* The clock advances by one tick: every entry is one tick older.
older(r) ==
    IF r = Collected \/ maxAge = Null \/ r.age > maxAge THEN r
    ELSE [r EXCEPT !.age = @ + 1]

ClockAdvance ==
    /\ entries' = [e \in 1..Len(entries) |-> older(entries[e])]
    /\ Did("clock", "", 0, FALSE)
    /\ UNCHANGED <<cfgVars, hasCache, cache, size, hasList, lruList,
                   pruningIntervalId, intervals, pending, v1Vars>>

Next ==
    \/ \E k \in Keys : Get(k)
    \/ \E k \in Keys : GetBadSetter(k)
    \/ \E k \in Keys : Remove(k)
    \/ Clear
    \/ Prune
    \/ GetSize
    \/ Destroy
    \/ TimerTick
    \/ \E e \in pending : Reject(e)
    \/ ClockAdvance

Spec == Init /\ [][Next]_vars

\* A cache that is never destroyed and whose setters all return promises,
\* with room for one entry, a maxAge and three keys.
InitLive == Init /\ maxSize = 1 /\ maxAge # Null

GetMissLive(k) == GetMissUpTo(k, MaxEntriesLive)

NextLive ==
    \/ \E k \in MoreKeys : GetHit(k)
    \/ \E k \in MoreKeys : GetMissLive(k)
    \/ \E k \in MoreKeys : Remove(k)
    \/ Clear
    \/ Prune
    \/ GetSize
    \/ TimerTick
    \/ \E e \in pending : Reject(e)
    \/ ClockAdvance

SpecLive == InitLive /\ [][NextLive]_vars

\* A cache with maxAge and pruneInterval configured, whose interval ticks
\* as long as it is scheduled: the browser's timer keeps firing.
InitTimer == Init /\ maxAge # Null /\ pruneInterval # Null

\* No caller invokes getSize or prune: the ticks are the only pruning.
NextTimer ==
    \/ \E k \in Keys : Get(k)
    \/ \E k \in Keys : Remove(k)
    \/ Clear
    \/ Destroy
    \/ TimerTick
    \/ \E e \in pending : Reject(e)
    \/ ClockAdvance

SpecTimer == InitTimer /\ [][NextTimer]_vars /\ WF_vars(TimerTick)

\* A fresh cache on which get is the only call made, every setter returns a
\* promise, no promise is rejected and no time passes.
GetMissGets(k) == GetMissUpTo(k, MaxEntriesGets)

NextGets ==
    \/ \E k \in MoreKeys : GetHit(k)
    \/ \E k \in MoreKeys : GetMissGets(k)

SpecGets == Init /\ [][NextGets]_vars

\* The same, when every get is a miss: keys are inserted and nothing else.
NextInserts == \E k \in MoreKeys : GetMissGets(k)

SpecInserts == Init /\ [][NextInserts]_vars

\* ------------------------------------------- the first version's cache
\* PromiseCache.prototype.isExpired of the first version; its maxAge
\* defaults to Number.POSITIVE_INFINITY, which is the Null of this model.
\* isExpired with >= for > .
v1isExpired_atBoundary(e) ==
    IF maxAge = Null THEN FALSE
    ELSE v1now >= v1entries[e].entryTime + maxAge

v1isExpired(e) ==
    IF maxAge = Null THEN FALSE
    ELSE v1now > v1entries[e].entryTime + maxAge

v1getHit(k) == MapHas(v1cache, k) /\ ~v1isExpired(MapGet(v1cache, k))

V1GetHit(k) ==
    /\ v1getHit(k)
    /\ v1hasCache' = TRUE
    /\ Did("getHit", k, MapGet(v1cache, k), FALSE)
    /\ UNCHANGED <<cfgVars, v2Vars, v1cache, v1entries, v1pending, v1now>>

\* The closure attached to the promise keeps `key`: the entry record holds it.
V1GetMiss(k) ==
    /\ ~v1getHit(k)
    /\ Len(v1entries) < MaxEntries
    /\ LET e == Len(v1entries) + 1
       IN /\ v1entries' = Append(v1entries, [key |-> k, entryTime |-> v1now])
          /\ v1cache' = MapPut(v1cache, k, e)
          /\ v1pending' = v1pending \cup {e}
          /\ Did("getMiss", k, e, FALSE)
    /\ v1hasCache' = TRUE
    /\ UNCHANGED <<cfgVars, v2Vars, v1now>>

V1Get(k) == V1GetHit(k) \/ V1GetMiss(k)

\* get with a setter that is no function: the map is created, then the throw.
V1GetNotFunction(k) ==
    /\ v1hasCache' = TRUE
    /\ Did("getNotFunction", k, 0, TRUE)
    /\ UNCHANGED <<cfgVars, v2Vars, v1cache, v1entries, v1pending, v1now>>

\* get with a setter that returns no promise: nothing is stored.
V1GetNotPromise(k) ==
    /\ ~v1getHit(k)
    /\ v1hasCache' = TRUE
    /\ Did("getNotPromise", k, 0, TRUE)
    /\ UNCHANGED <<cfgVars, v2Vars, v1cache, v1entries, v1pending, v1now>>

V1GetBadSetter(k) == V1GetNotFunction(k) \/ V1GetNotPromise(k)

\* function() { delete me.cache[ key ]; }
V1Reject(e) ==
    /\ e \in v1pending
    /\ v1pending' = v1pending \ {e}
    /\ v1cache' = MapDelete(v1cache, v1entries[e].key)
    /\ Did("reject", v1entries[e].key, e, FALSE)
    /\ UNCHANGED <<cfgVars, v2Vars, v1hasCache, v1entries, v1now>>

V1ClockAdvance ==
    /\ v1now < MaxTime
    /\ v1now' = v1now + 1
    /\ Did("clock", "", 0, FALSE)
    /\ UNCHANGED <<cfgVars, v2Vars, v1hasCache, v1cache, v1entries, v1pending>>

NextV1 ==
    \/ \E k \in Keys : V1Get(k)
    \/ \E k \in Keys : V1GetBadSetter(k)
    \/ \E e \in v1pending : V1Reject(e)
    \/ V1ClockAdvance

SpecV1 == Init /\ [][NextV1]_vars

\* ---------------------------------------------------------------- claims
\* The instance after the step.
ThisNext ==
    [hasCache |-> hasCache', cache |-> cache', size |-> size',
     hasList |-> hasList', lruList |-> lruList',
     pruningIntervalId |-> pruningIntervalId', intervals |-> intervals',
     entries |-> entries', threw |-> FALSE]

\* The gets whose setter is a function.
GetOps == {"getHit", "getMiss", "getNotPromise"}

\* The runs of a rejection callback.
RejectOps == {"reject", "rejectStale"}

\* C1. Single-flight: a get( k, setter ) made while an unexpired entry is
\* stored under k invokes no setter (no promise is created, nothing is
\* thrown) and returns the promise that entry holds, the one the get that
\* created the entry returned.
C1_SingleFlight ==
    [][\A k \in Keys :
        (has(This, k) /\ last'.op \in GetOps /\ last'.key = k)
        => /\ last'.op = "getHit"
           /\ Len(entries') = Len(entries)
           /\ last'.ret = getPromise(entryAt(This, k))
           /\ entryAt(ThisNext, k) = entryAt(This, k)]_vars

\* A second get has joined a promise that has not settled.
C1_Witness == last.op = "getHit" /\ last.ret \in pending

\* C2. Stale-entry guard: when the promise of entry e is rejected and the
\* entry stored under e's key is not e (a newer entry, or none), the
\* rejection callback changes nothing of the cache: map, size and list stay.
C2_StaleEntryGuard ==
    [][\A e \in pending :
        (last'.op \in RejectOps /\ last'.ret = e /\ entryAt(This, getKey(This, e)) # e)
        => /\ cache' = cache /\ hasCache' = hasCache
           /\ size' = size
           /\ lruList' = lruList /\ hasList' = hasList
           /\ pruningIntervalId' = pruningIntervalId]_vars

\* An older promise was rejected and a newer entry is stored under its key.
C2_Witness ==
    /\ last.op = "rejectStale"
    /\ entryAt(This, last.key) > last.ret
    /\ has(This, last.key)

\* C3. Rejection invalidation: when the promise of entry e is rejected while
\* e is the entry stored under its key k, has( k ) is false once the callback
\* has run; and a get( k, setter2 ) that follows a rejection which left
\* has( k ) false invokes setter2 and returns the promise setter2 made.
C3_RejectionInvalidation ==
    [][/\ \A e \in pending :
            (last'.op \in RejectOps /\ last'.ret = e /\ entryAt(This, getKey(This, e)) = e)
            => ~has(ThisNext, getKey(This, e))
       /\ (last.op \in RejectOps /\ ~has(This, last.key)
            /\ last'.op \in {"getHit", "getMiss"} /\ last'.key = last.key)
            => /\ last'.op = "getMiss"
               /\ last'.ret = Len(entries) + 1
               /\ Len(entries') = Len(entries) + 1]_vars

\* A rejection callback has removed its entry and has( k ) is false.
C3_Witness == last.op = "reject" /\ ~has(This, last.key)

\* The keys has() is true for.
liveKeys(s) == {k \in MoreKeys : has(s, k)}

\* C4. maxSize bound: with maxSize configured, the cache map never holds
\* more than maxSize entries when a call has returned.
C4_MaxSizeBound == maxSize # Null => Len(cache) <= maxSize

\* C5. LRU eviction order: on a fresh cache with maxSize = N on which gets
\* insert N + 1 distinct keys and nothing else happens, the first key
\* inserted is evicted and the other N are kept.
C5_LruEvictionOrder ==
    (maxSize # Null /\ Len(entries) = maxSize + 1)
    => /\ ~has(This, entries[1].key)
       /\ \A e \in 2..Len(entries) :
            has(This, entries[e].key) /\ entryAt(This, entries[e].key) = e

\* Three keys were inserted into a cache of two.
C5_Witness == maxSize = 2 /\ Len(entries) = 3 /\ last.op = "getMiss"

C7_ExpirationBoundary_Claimed ==
    [][\A k \in Keys :
        (maxAge # Null /\ MapHas(v1cache, k)
            /\ last'.op \in {"getHit", "getMiss"} /\ last'.key = k)
        => LET e == MapGet(v1cache, k)
           IN IF v1now < v1entries[e].entryTime + maxAge
              THEN Len(v1entries') = Len(v1entries) /\ last'.ret = e
              ELSE Len(v1entries') = Len(v1entries) + 1 /\ last'.ret = Len(v1entries')]_vars

\* C7. Expiration boundary: with maxAge = T a get at time t on a key whose
\* entry was inserted at t0 is a hit (no setter call, the stored promise is
\* returned) when t <= t0 + T and a miss (the setter makes a new promise,
\* which is returned) when t > t0 + T.
C7_ExpirationBoundary ==
    [][\A k \in Keys :
        (maxAge # Null /\ MapHas(v1cache, k)
            /\ last'.op \in {"getHit", "getMiss"} /\ last'.key = k)
        => LET e == MapGet(v1cache, k)
           IN IF v1now <= v1entries[e].entryTime + maxAge
              THEN Len(v1entries') = Len(v1entries) /\ last'.ret = e
              ELSE Len(v1entries') = Len(v1entries) + 1 /\ last'.ret = Len(v1entries')]_vars

\* A get at exactly t0 + T was a hit.
C7_Witness ==
    /\ maxAge # Null /\ last.op = "getHit"
    /\ v1now = v1entries[last.ret].entryTime + maxAge

\* C8. getSize accuracy: getSize() returns the number of keys k for which
\* has( k ) is true.
C8_GetSizeAccuracy ==
    last.op = "getSize" => last.ret = Cardinality(liveKeys(This))

\* C9. Idempotent clear/destroy: clear() and destroy() do not throw, and a
\* getSize() made right after either returns 0.
C9_ClearDestroyThenSizeZero ==
    last.op \in {"clear", "destroy"}
    => ~last.threw /\ ~getSize(This).threw /\ getSize(This).size = 0

\* C10. Pruning interval lifecycle: when the pruning interval is scheduled,
\* maxAge is set and the cache map holds at least one entry.
C10_IntervalOnlyWithEntries ==
    pruningIntervalId # 0 => maxAge # Null /\ hasCache /\ Len(cache) >= 1

\* The gets that throw.
ThrowOps == {"getNotFunction", "getNotPromise"}

\* C11. Errors leave the cache unchanged: a get that throws (its setter is
\* no function, or returns no promise) stores no entry and leaves the keys of
\* the map, the entry under each key, size, the LRU order and the pruning
\* timer as they were; an entry stored under the key, expired or not, stays.
C11_ErrorsLeaveCacheUnchanged ==
    [][last'.op \in ThrowOps
        => /\ last'.threw
           /\ cache' = cache
           /\ Len(entries') = Len(entries)
           /\ size' = size
           /\ lruList' = lruList
           /\ pruningIntervalId' = pruningIntervalId /\ intervals' = intervals
           /\ pending' = pending]_vars

\* A setter that returned no promise was called for a key whose entry is
\* expired, and the expired entry is still stored.
C11_Witness ==
    /\ last.op = "getNotPromise"
    /\ entryAt(This, last.key) # 0
    /\ isExpired(This, entryAt(This, last.key), maxAge)

\* C12. Remove round-trip: remove( k ) makes has( k ) false and leaves the
\* entry of every other key in the map untouched, and a get( k, setter )
\* that follows the remove invokes the setter again and returns its promise.
C12_RemoveRoundTrip ==
    [][/\ \A k \in Keys :
            (last'.op = "remove" /\ last'.key = k)
            => /\ ~last'.threw
               /\ ~has(ThisNext, k)
               /\ entryAt(ThisNext, k) = 0
               /\ \A j \in Keys \ {k} : entryAt(ThisNext, j) = entryAt(This, j)
       /\ (last.op = "remove" /\ last'.op \in {"getHit", "getMiss"}
                /\ last'.key = last.key)
            => /\ last'.op = "getMiss"
               /\ last'.ret = Len(entries) + 1
               /\ Len(entries') = Len(entries) + 1]_vars

\* remove( k ) has removed the unexpired entry of k and the entry of the
\* other key is still stored.
C12_Witness ==
    /\ last.op = "remove" /\ last.ret # 0
    /\ ~isExpired(This, last.ret, maxAge)
    /\ ~has(This, last.key)
    /\ \E j \in Keys \ {last.key} : has(This, j)

\* C13. Size mirrors the map: when a call has returned, the size counter
\* equals the number of keys in the cache map.
C13_SizeMirrorsMap == size = Len(cache)

\* The entries stored in the cache map and the entries linked in the list.
mapEntries(s) == {s.cache[i][2] : i \in 1..Len(s.cache)}

listEntries(s) == {s.lruList[i] : i \in 1..Len(s.lruList)}

\* C14. LRU list matches the map: with maxSize configured, when a call has
\* returned the entries linked in the LRU list are the entries stored in the
\* cache map, each linked once.
C14_LruListMatchesMap ==
    maxSize # Null
    => /\ listEntries(This) = mapEntries(This)
       /\ Cardinality(listEntries(This)) = Len(lruList)

\* C15. Eviction spares the new entry: with maxSize >= 1, right after a
\* get( k, setter ) that returned the promise its setter made, has( k ) is
\* true and the entry under k holds that promise.
C15_EvictionSparesNewEntry ==
    (maxSize # Null /\ maxSize >= 1 /\ last.op = "getMiss")
    => has(This, last.key) /\ getPromise(entryAt(This, last.key)) = last.ret

\* The calls that run prune.
PruneOps == {"prune", "tick", "getSize"}

\* C16. Prune removes exactly the expired entries: prune() does not throw;
\* with maxAge set and a cache map, after it no entry in the map is expired
\* and every entry that was unexpired is still stored under its key, the
\* same instance; with maxAge unset or no cache map it changes nothing.
C16_PruneRemovesExactlyExpired ==
    [][last'.op \in PruneOps
        => /\ ~last'.threw
           /\ IF maxAge # Null /\ hasCache
              THEN \A k \in Keys :
                    /\ entryAt(ThisNext, k) # 0
                        => ~isExpired(ThisNext, entryAt(ThisNext, k), maxAge)
                    /\ has(This, k) => entryAt(ThisNext, k) = entryAt(This, k)
              ELSE /\ cache' = cache /\ hasCache' = hasCache
                   /\ size' = size
                   /\ lruList' = lruList /\ hasList' = hasList
                   /\ pruningIntervalId' = pruningIntervalId]_vars

\* A timer tick has removed an expired entry and kept an unexpired one.
C16_Witness ==
    /\ last.op = "tick" /\ last.ret >= 1
    /\ \E k \in Keys : has(This, k)

\* The intervals scheduled when the instance holds the id of the one it started.
owned(id) == IF id # 0 THEN {id} ELSE {}

\* C17. No leaked timers: at most one pruning interval is scheduled, it is
\* scheduled exactly when pruningIntervalId is set, and a stop (clear(),
\* destroy(), or a call that removes the last entry of the cache map)
\* leaves no interval scheduled.
C17_NoLeakedTimers ==
    [][/\ intervals = owned(pruningIntervalId)
       /\ intervals' = owned(pruningIntervalId')
       /\ (last'.op \in {"clear", "destroy"} \/ (Len(cache) >= 1 /\ Len(cache') = 0))
            => intervals' = {} /\ pruningIntervalId' = 0]_vars

\* The entry stored under k is expired.
expiredInMap(k) ==
    entryAt(This, k) # 0 /\ isExpired(This, entryAt(This, k), maxAge)

\* C18. Expired entries are eventually pruned: with maxAge and pruneInterval
\* configured, whenever the cache map holds an entry the pruning interval is
\* scheduled, and under fair timer ticks an expired entry stored under a key
\* is eventually out of the map (no entry, or a newer one, under the key).
C18_ExpiredEventuallyPruned ==
    /\ [](Len(cache) >= 1 => pruningIntervalId # 0 /\ pruningIntervalId \in intervals)
    /\ \A k \in Keys : expiredInMap(k) ~> ~expiredInMap(k)

\* A timer tick has removed the expired entries, all there were.
C18_Witness ==
    /\ last.op = "tick" /\ last.ret >= 1
    /\ pruneInterval # Null
    /\ ~hasCache

\* C19. In the first version, the rejection of an older promise for key k
\* that fires when a newer entry is stored under k leaves the map as it is.
C19_V1StaleRejectionSparesNewer ==
    [][\A e \in v1pending :
        (last'.op = "reject" /\ last'.ret = e /\ v1pending' = v1pending \ {e}
            /\ MapHas(v1cache, v1entries[e].key)
            /\ MapGet(v1cache, v1entries[e].key) # e)
        => v1cache' = v1cache]_vars

\* C20. Size never undercounts: the size counter is never negative and
\* never less than the number of keys in the cache map, after destroy() and
\* further gets too, and a remove or a rejection callback takes no entry out
\* of the map but the one it is about.
C20_SizeNeverUndercounts ==
    [][/\ size >= 0 /\ size >= Len(cache)
       /\ size' >= 0 /\ size' >= Len(cache')
       /\ last'.op \in {"remove"} \cup RejectOps
            => mapEntries(This) \ mapEntries(ThisNext) \subseteq {last'.ret}]_vars

\* A get on a cache that was destroyed with one entry: nothing expires, the
\* new map holds one key and size counts the discarded entry too.
C20_Witness ==
    /\ last.op = "getMiss"
    /\ maxAge = Null
    /\ size = 2 /\ Len(cache) = 1

==========================================================================
